---- MODULE Spec2Model ----
(***************************************************************************)
(* Model of the graph-game backend (src/backend/server.js): the identity   *)
(* registry, the score ledger and the leaderboard ranker, as Express       *)
(* handlers over two MongoDB collections.  Every handler is cut at its     *)
(* awaits: the code between two awaits runs without interruption on the    *)
(* Node event loop, and each awaited query or save is one atomic database  *)
(* operation, so one action is "resume after an await, run to the next     *)
(* one".  A handler's synchronous prologue reads no shared state, so it is *)
(* taken together with the first query it awaits.                          *)
(***************************************************************************)
EXTENDS Integers, Sequences, FiniteSets, TLC

\* ------------------------------------------------------------------ bounds
NumSlots == 2       \* handlers that may be in flight at once
MaxUsers == 2       \* documents the users collection may hold
MaxScores == 2      \* documents the scores collection may hold
MaxMoves == 3       \* largest move count a request submits
MaxTime == 1        \* last reading of the server clock
MaxBoard == 5       \* records in a ledger given to the ranker
MaxTied == 2        \* records in a ledger that two queries read at once
MaxPage == 3        \* largest page a leaderboard query asks for
MaxLimit == 2       \* largest limit a leaderboard query asks for
MaxRanked == 3      \* records in a ledger whose players ask for their rank
MaxAway == 0        \* swaps the grid may be away from a shortest solution
MaxSwaps == 12      \* largest move count of one game
MaxPending == 1      \* score submissions the client may have in flight
MaxCrowd == 40       \* players the statistics are taken over

\* ------------------------------------------------------- program constants
TokenTTL == 7       \* expiresIn: "7d", in days
MinMoves == 1       \* moves < 1 is rejected
MinNameLen == 2     \* name.trim().length < 2 is rejected
MaxNameLen == 50    \* userSchema.name.maxlength
DefaultLimit == 50  \* parseInt(req.query.limit) || 50
DefaultPage == 1    \* parseInt(req.query.page) || 1

VARIABLES
    users,      \* the users collection: a sequence of documents, _id = position
    scores,     \* the scores collection: a sequence of documents, _id = position
    now,        \* the server clock (Date.now())
    slot,       \* slot[r]: where handler r stands, with its local variables,
                \* or the response it sent last
    client      \* the state of the React component GraphSeasonGame

vars == <<users, scores, now, slot, client>>

Slots == 1..NumSlots
Idle == [pc |-> "idle"]

\* res.status(...).json(...): the handler is over, its slot keeps the response
Sent(response) == [pc |-> "sent", resp |-> response]

\* a slot takes a request when it runs no handler and holds no response
Free(r) == slot[r].pc = "idle"

\* the response has gone out: the slot is there for the next request
Close(r) ==
    /\ slot[r].pc = "sent"
    /\ slot' = [slot EXCEPT ![r] = Idle]
    /\ UNCHANGED <<users, scores, now, client>>

Min(a, b) == IF a < b THEN a ELSE b

\* ------------------------------------------------------------ credentials
\* An Authorization header as a request carries it.  A jwt is described by
\* the player id signed into it and by its age, the time since jwt.sign.
GhostId == 0        \* an id that no document of the users collection has

AuthHeader(kind, uid, age) == [kind |-> kind, uid |-> uid, age |-> age]

TokenAges == {0, TokenTTL - 1, TokenTTL, TokenTTL + 1}

AuthHeaders ==
    {AuthHeader("absent", GhostId, 0), AuthHeader("noToken", GhostId, 0),
     AuthHeader("garbage", GhostId, 0)}
    \cup {AuthHeader("jwt", u, a) : u \in 0..MaxUsers, a \in TokenAges}

\* const token = authHeader && authHeader.split(" ")[1]
HasToken(hdr) == hdr.kind \in {"garbage", "jwt"}

\* jwt.verify with ignoreExpiration: only the signature is looked at
VerifiesAnyAge(hdr) == hdr.kind = "jwt"

\* jwt.verify: the signature is good and the token is younger than expiresIn
Verifies(hdr) == hdr.kind = "jwt" /\ hdr.age < TokenTTL

\* authenticateToken: 0 when next() is called, else the status it answers
AuthStatus(hdr) ==
    IF ~HasToken(hdr) THEN 401
    ELSE IF ~Verifies(hdr) THEN 403
    ELSE 0

\* tokens a client can hold: signed for a registered player, or for an id
\* that resolves to no player (the default secret signs anything)
Presentable(hdr) == hdr.kind = "jwt" => hdr.uid \in 0..Len(users)

\* ------------------------------------------------------- identity registry
\* A name as the request carries it: len characters between pad characters
\* of white space.  An email: the mailbox it names, whether it is written
\* with upper-case letters, and whether its lower-cased text has the
\* institutional shape (2 letters, 2 digits, 1 letter, 4 digits, the domain).
Name(len, pad) == [len |-> len, pad |-> pad]
Email(box, upper, shape) == [box |-> box, upper |-> upper, shape |-> shape]

NameInputs ==
    {Name(0, 0), Name(MinNameLen - 1, 1), Name(MinNameLen, 1), Name(MaxNameLen, 0),
     Name(MaxNameLen + 1, 0)}

EmailInputs ==
    {Email(b, u, "ok") : b \in 1..MaxUsers, u \in BOOLEAN}
    \cup {Email(1, FALSE, "bad"), Email(0, FALSE, "empty")}

\* !name, !email: the empty string is falsy
FalsyName(name) == name.len + name.pad = 0
FalsyEmail(email) == email.shape = "empty"

\* name.trim(): the stored name is described by its length
Trim(name) == name.len

\* email.toLowerCase()
ToLowerCase(email) == [email EXCEPT !.upper = FALSE]

\* userSchema.email.validate: /^[a-zA-Z]{2}\d{2}[a-zA-Z]{1}\d{4}@iiitdm\.ac\.in$/
\* on the lower-cased value (lowercase: true)
EmailPattern(email) == ToLowerCase(email).shape = "ok"

\* userSchema without maxlength: any name of two characters or more passes
UserValidAnyLength(doc) ==
    /\ doc.name >= MinNameLen
    /\ EmailPattern(doc.email)

\* userSchema: the validation user.save() runs before it inserts
UserValid(doc) ==
    /\ doc.name >= MinNameLen
    /\ doc.name <= MaxNameLen
    /\ EmailPattern(doc.email)

\* User.findOne({ email })
EmailTaken(email) == \E i \in DOMAIN users : users[i].email = email

\* userSchema.email without unique: true: no index, no E11000
NoUniqueIndex(email) == FALSE

\* userSchema.email unique: true: the insert fails with E11000 when a
\* document holds the email
DuplicateKey(email) == EmailTaken(email)

RegResp(status, uid) == [op |-> "register", status |-> status, uid |-> uid]

\* POST /api/auth/register, up to await User.findOne and on to new User(...)
Register(r, name, email) ==
    /\ Free(r)
    /\ UNCHANGED <<users, scores, now, client>>
    /\ IF FalsyName(name) \/ FalsyEmail(email)
       THEN slot' = [slot EXCEPT ![r] = Sent(RegResp(400, 0))]
       ELSE IF Trim(name) < MinNameLen
       THEN slot' = [slot EXCEPT ![r] = Sent(RegResp(400, 0))]
       ELSE IF EmailTaken(ToLowerCase(email))
       THEN slot' = [slot EXCEPT ![r] = Sent(RegResp(400, 0))]
       ELSE /\ slot' = [slot EXCEPT ![r] =
                    [pc |-> "regSave",
                     doc |-> [name |-> Trim(name), email |-> ToLowerCase(email)]]]

\* await user.save(), then jwt.sign and the 201; the catch block maps a
\* ValidationError to 400 and anything else (the unique index's E11000) to 500
RegisterSave(r) ==
    /\ slot[r].pc = "regSave"
    /\ UNCHANGED <<scores, now, client>>
    /\ LET doc == slot[r].doc IN
       IF ~UserValid(doc)
       THEN slot' = [slot EXCEPT ![r] = Sent(RegResp(400, 0))] /\ UNCHANGED users
       ELSE IF DuplicateKey(doc.email)
       THEN slot' = [slot EXCEPT ![r] = Sent(RegResp(500, 0))] /\ UNCHANGED users
       ELSE /\ Len(users) < MaxUsers
            /\ users' = Append(users, doc)
            /\ slot' = [slot EXCEPT ![r] = Sent(RegResp(201, Len(users) + 1))]

LoginResp(status, uid) == [op |-> "login", status |-> status, uid |-> uid]

\* POST /api/auth/login: await User.findOne, then jwt.sign and the answer
Login(r, email) ==
    /\ Free(r)
    /\ UNCHANGED <<users, scores, now, client>>
    /\ IF FalsyEmail(email)
       THEN slot' = [slot EXCEPT ![r] = Sent(LoginResp(400, 0))]
       ELSE IF ~EmailTaken(ToLowerCase(email))
       THEN slot' = [slot EXCEPT ![r] = Sent(LoginResp(404, 0))]
       ELSE \E i \in DOMAIN users :
               /\ users[i].email = ToLowerCase(email)
               /\ slot' = [slot EXCEPT ![r] = Sent(LoginResp(200, i))]

\* ------------------------------------------------------------ score ledger
MovesInputs == (-1)..MaxMoves

\* if (moves < 0): zero is let through
NegativeMoves(m) == m < 0

\* if (!moves || moves < 1)
InvalidMoves(m) == m = 0 \/ m < MinMoves

\* User.findById(req.user.userId)
UserExists(uid) == uid \in DOMAIN users

\* Score.findOne({}) without the userId filter: any document
AnyScores(uid) == DOMAIN scores

\* the documents Score.findOne({ userId }) may return
ScoresOf(uid) == {i \in DOMAIN scores : scores[i].userId = uid}

\* if (moves <= existingScore.moves): an equal score is stored again
ImprovesOrEqual(m, existing) == m <= existing.moves

\* if (moves < existingScore.moves)
Improves(m, existing) == m < existing.moves

ScoreDoc(uid, m, at) == [userId |-> uid, moves |-> m, completedAt |-> at]

ScoreErr(status) == [op |-> "scores", status |-> status]
ScoreResp(status, m, at, improved) ==
    [op |-> "scores", status |-> status, moves |-> m, completedAt |-> at,
     improved |-> improved]

\* POST /api/scores: authenticateToken, the moves check, await User.findById
SubmitScore(r, hdr, m) ==
    /\ Free(r)
    /\ Presentable(hdr)
    /\ UNCHANGED <<users, scores, now, client>>
    /\ IF AuthStatus(hdr) # 0
       THEN slot' = [slot EXCEPT ![r] = Sent(ScoreErr(AuthStatus(hdr)))]
       ELSE IF InvalidMoves(m)
       THEN slot' = [slot EXCEPT ![r] = Sent(ScoreErr(400))]
       ELSE IF ~UserExists(hdr.uid)
       THEN slot' = [slot EXCEPT ![r] = Sent(ScoreErr(404))]
       ELSE /\ slot' = [slot EXCEPT ![r] =
                    [pc |-> "findScore", uid |-> hdr.uid, moves |-> m]]

\* POST /api/scores of the server kept in src/frontend/src/App.js: the same
\* authenticateToken and moves check, then Score.findOne at once; no
\* User.findById stands between them
SubmitScoreCopy(r, hdr, m) ==
    /\ Free(r)
    /\ Presentable(hdr)
    /\ UNCHANGED <<users, scores, now, client>>
    /\ IF AuthStatus(hdr) # 0
       THEN slot' = [slot EXCEPT ![r] = Sent(ScoreErr(AuthStatus(hdr)))]
       ELSE IF InvalidMoves(m)
       THEN slot' = [slot EXCEPT ![r] = Sent(ScoreErr(400))]
       ELSE /\ slot' = [slot EXCEPT ![r] =
                    [pc |-> "findScore", uid |-> hdr.uid, moves |-> m]]

\* await Score.findOne({ userId }), then the comparison; new Date() and the
\* schema's default Date.now are read here, before the save is awaited
ScoreFindOne(r) ==
    /\ slot[r].pc = "findScore"
    /\ UNCHANGED <<users, scores, now, client>>
    /\ LET uid == slot[r].uid
           m == slot[r].moves
       IN IF ScoresOf(uid) = {}
          THEN /\ slot' = [slot EXCEPT ![r] =
                       [pc |-> "saveNew", uid |-> uid, moves |-> m, at |-> now]]
          ELSE \E d \in ScoresOf(uid) :
                  IF Improves(m, scores[d])
                  THEN slot' = [slot EXCEPT ![r] =
                           [pc |-> "saveUpdate", uid |-> uid, doc |-> d,
                            moves |-> m, at |-> now]]
                  ELSE slot' = [slot EXCEPT ![r] =
                           Sent(ScoreResp(200, scores[d].moves,
                                          scores[d].completedAt, FALSE))]

\* await score.save() of a new document, then the 201
ScoreSaveNew(r) ==
    /\ slot[r].pc = "saveNew"
    /\ Len(scores) < MaxScores
    /\ UNCHANGED <<users, now, client>>
    /\ scores' = Append(scores, ScoreDoc(slot[r].uid, slot[r].moves, slot[r].at))
    /\ slot' = [slot EXCEPT ![r] =
                    Sent(ScoreResp(201, slot[r].moves, slot[r].at, TRUE))]

\* await existingScore.save(): $set of the two modified paths on that _id
ScoreSaveUpdate(r) ==
    /\ slot[r].pc = "saveUpdate"
    /\ UNCHANGED <<users, now, client>>
    /\ scores' = [scores EXCEPT ![slot[r].doc] =
                      [@ EXCEPT !.moves = slot[r].moves, !.completedAt = slot[r].at]]
    /\ slot' = [slot EXCEPT ![r] =
                    Sent(ScoreResp(200, slot[r].moves, slot[r].at, TRUE))]

\* ------------------------------------------------------------ player score
\* $sort { moves: 1 }: completedAt breaks no tie
FewerMoves(a, b) == a.moves < b.moves

\* moves less, or equal moves with earlier completedAt
Better(a, b) ==
    \/ a.moves < b.moves
    \/ a.moves = b.moves /\ a.completedAt < b.completedAt

\* countDocuments({ moves: { $lte: score.moves } }): ties count as better
NotWorseScores(score) ==
    Cardinality({i \in DOMAIN scores : scores[i].moves <= score.moves})

\* Score.countDocuments({ $or: [...] })
BetterScores(score) == Cardinality({i \in DOMAIN scores : Better(scores[i], score)})

RankErr(status) == [op |-> "userScore", status |-> status]
NoScoreResp == [op |-> "userScore", status |-> 200, hasScore |-> FALSE]
RankResp(score, rank) ==
    [op |-> "userScore", status |-> 200, hasScore |-> TRUE, moves |-> score.moves,
     completedAt |-> score.completedAt, rank |-> rank]

\* GET /api/user/score: authenticateToken, await Score.findOne
UserScore(r, hdr) ==
    /\ Free(r)
    /\ Presentable(hdr)
    /\ UNCHANGED <<users, scores, now, client>>
    /\ IF AuthStatus(hdr) # 0
       THEN slot' = [slot EXCEPT ![r] = Sent(RankErr(AuthStatus(hdr)))]
       ELSE IF ScoresOf(hdr.uid) = {}
       THEN slot' = [slot EXCEPT ![r] = Sent(NoScoreResp)]
       ELSE \E d \in ScoresOf(hdr.uid) :
               /\ slot' = [slot EXCEPT ![r] =
                       [pc |-> "rankCount", score |-> scores[d]]]

\* await Score.countDocuments, then the answer
UserScoreCount(r) ==
    /\ slot[r].pc = "rankCount"
    /\ UNCHANGED <<users, scores, now, client>>
    /\ slot' = [slot EXCEPT ![r] =
                    Sent(RankResp(slot[r].score, BetterScores(slot[r].score) + 1))]

\* -------------------------------------------------------------- leaderboard
\* A query parameter as the request carries it: absent, a text that parseInt
\* reads no number from, or the digits of an integer.
Query(kind, val) == [kind |-> kind, val |-> val]
QueryInputs(max) ==
    {Query("absent", 0), Query("text", 0)} \cup {Query("int", v) : v \in (-1)..max}

NaN == [nan |-> TRUE, val |-> 0]

\* parseInt(req.query.x)
ParseInt(q) == IF q.kind = "int" THEN [nan |-> FALSE, val |-> q.val] ELSE NaN

\* parsed || dflt: NaN and 0 are falsy
OrDefault(parsed, dflt) == IF parsed.nan \/ parsed.val = 0 THEN dflt ELSE parsed.val

\* Math.floor(a / b)
Floor(a, b) == a \div b

\* Math.ceil(a / b) for a >= 0, b > 0
Ceil(a, b) == (a + b - 1) \div b

\* $lookup from users, $unwind "$user": a score whose userId matches no user
\* leaves the pipeline
Joined == {i \in DOMAIN scores : scores[i].userId \in DOMAIN users}

\* the documents of D that $sort { moves: 1, completedAt: 1 } may put first
First(D) == {d \in D : \A e \in D : ~Better(scores[e], scores[d])}

\* every order $sort may produce: documents equal in both keys come out in
\* any order, and not the same one in every execution
RECURSIVE SortedOrders(_)
SortedOrders(D) ==
    IF D = {} THEN {<<>>}
    ELSE UNION {{<<d>> \o rest : rest \in SortedOrders(D \ {d})} : d \in First(D)}

\* $skip, $limit
Window(order, skip, limit) == SubSeq(order, skip + 1, Min(skip + limit, Len(order)))

\* $project and rankedLeaderboard = leaderboard.map(...)
Entry(d, index, skip) ==
    [rank |-> skip + index, name |-> users[scores[d].userId].name,
     email |-> users[scores[d].userId].email, moves |-> scores[d].moves,
     completedAt |-> scores[d].completedAt]

Ranked(window, skip) == [k \in DOMAIN window |-> Entry(window[k], k, skip)]

BoardErr(status) == [op |-> "leaderboard", status |-> status]
BoardResp(entries, page, limit, total) ==
    [op |-> "leaderboard", status |-> 200, leaderboard |-> entries,
     currentPage |-> page, totalPages |-> Ceil(total, limit), totalScores |-> total,
     hasNext |-> page * limit < total, hasPrev |-> page > 1]

\* GET /api/leaderboard: the parameters, await Score.aggregate (which rejects
\* a negative $skip and a non-positive $limit: the catch answers 500), the map
Leaderboard(r, qlimit, qpage) ==
    /\ Free(r)
    /\ UNCHANGED <<users, scores, now, client>>
    /\ LET limit == OrDefault(ParseInt(qlimit), DefaultLimit)
           page == OrDefault(ParseInt(qpage), DefaultPage)
           skip == (page - 1) * limit
       IN IF skip < 0 \/ limit <= 0
          THEN slot' = [slot EXCEPT ![r] = Sent(BoardErr(500))]
          ELSE \E order \in SortedOrders(Joined) :
                  slot' = [slot EXCEPT ![r] =
                      [pc |-> "boardCount", page |-> page, limit |-> limit,
                       entries |-> Ranked(Window(order, skip, limit), skip)]]

\* await Score.countDocuments(), then the answer
LeaderboardCount(r) ==
    /\ slot[r].pc = "boardCount"
    /\ UNCHANGED <<users, scores, now, client>>
    /\ slot' = [slot EXCEPT ![r] =
                    Sent(BoardResp(slot[r].entries, slot[r].page, slot[r].limit,
                                   Len(scores)))]

\* ------------------------------------------------------------------ numbers
\* A JavaScript number that is not an integer by construction: an IEEE 754
\* double, sig * 2^exp with a significand of Precision binary digits (most
\* significant first), or zero.  Every operation rounds its exact result to
\* the nearest double, ties to the even significand.
Precision == 53
Zero == [sig |-> <<>>, exp |-> 0]

RECURSIVE Pow2(_)
Pow2(n) == IF n = 0 THEN 1 ELSE 2 * Pow2(n - 1)

\* the binary digits of a natural number
RECURSIVE BitsOf(_)
BitsOf(n) == IF n = 0 THEN <<>> ELSE Append(BitsOf(n \div 2), n % 2)

\* the natural number of a row of binary digits
RECURSIVE ToInt(_)
ToInt(bits) ==
    IF bits = <<>> THEN 0
    ELSE 2 * ToInt(SubSeq(bits, 1, Len(bits) - 1)) + bits[Len(bits)]

\* the digits of the next natural number
RECURSIVE Increment(_)
Increment(bits) ==
    IF bits = <<>> THEN <<1>>
    ELSE LET n == Len(bits)
         IN IF bits[n] = 0 THEN [bits EXCEPT ![n] = 1]
            ELSE Append(Increment(SubSeq(bits, 1, n - 1)), 0)

\* bits * 2^exp, plus something below the last digit when inexact, rounded
\* to Precision digits
Nearest(bits, exp, inexact) ==
    LET drop == Len(bits) - Precision
        kept == SubSeq(bits, 1, Precision)
        rest == SubSeq(bits, Precision + 1, Len(bits))
        half == drop >= 1 /\ rest[1] = 1
        more == inexact \/ \E k \in 2..drop : rest[k] = 1
        up == half /\ (more \/ kept[Precision] = 1)
        next == Increment(kept)
    IN IF ~up THEN [sig |-> kept, exp |-> exp + drop]
       ELSE IF Len(next) > Precision
       THEN [sig |-> SubSeq(next, 1, Precision), exp |-> exp + drop + 1]
       ELSE [sig |-> next, exp |-> exp + drop]

\* the k with b * 2^k <= a < b * 2^(k + 1)
RECURSIVE Log2(_, _)
Log2(a, b) ==
    IF a < b THEN Log2(2 * a, b) - 1
    ELSE IF a >= 2 * b THEN Log2(a, 2 * b) + 1
    ELSE 0

\* long division: the binary digits of rem / den that follow the digits
\* found, up to one digit more than a significand holds, and what remains
RECURSIVE Divide(_, _, _)
Divide(found, rem, den) ==
    IF Len(found) > Precision THEN [bits |-> found, rem |-> rem]
    ELSE LET bit == IF 2 * rem >= den THEN 1 ELSE 0
         IN Divide(Append(found, bit), 2 * rem - bit * den, den)

\* a / b of two integers, a >= 0 and b > 0
Quotient(a, b) ==
    IF a = 0 THEN Zero
    ELSE LET k == Log2(a, b)
             num == IF k < 0 THEN a * Pow2(-k) ELSE a
             den == IF k > 0 THEN b * Pow2(k) ELSE b
             q == Divide(<<1>>, num - den, den)
         IN Nearest(q.bits, k - Precision, q.rem # 0)

\* the digits of bits * c, c a positive integer: the low digits are found,
\* with a carry into the next one
RECURSIVE Product(_, _, _, _)
Product(bits, c, carry, found) ==
    LET n == Len(bits) - Len(found)
    IN IF n = 0 THEN BitsOf(carry) \o found
       ELSE LET d == bits[n] * c + carry
            IN Product(bits, c, d \div 2, <<d % 2>> \o found)

\* x * c, c a positive integer
Times(x, c) ==
    IF x = Zero THEN Zero
    ELSE Nearest(Product(x.sig, c, 0, <<>>), x.exp, FALSE)

\* Math.round(x), x >= 0: the nearest integer, a half goes up
MathRound(x) ==
    IF x = Zero THEN 0
    ELSE LET whole == Precision + x.exp
         IN IF x.exp >= 0 THEN ToInt(x.sig) * Pow2(x.exp)
            ELSE IF whole < 0 THEN 0
            ELSE ToInt(SubSeq(x.sig, 1, whole)) + x.sig[whole + 1]

\* ------------------------------------------------------------------- stats
RECURSIVE SumMoves(_)
SumMoves(docs) ==
    IF docs = <<>> THEN 0 ELSE docs[1].moves + SumMoves(Tail(docs))

\* $min and $max of moves over a collection that is not empty
BestMoves(docs) ==
    CHOOSE m \in {docs[k].moves : k \in DOMAIN docs} :
        \A k \in DOMAIN docs : m <= docs[k].moves
WorstMoves(docs) ==
    CHOOSE m \in {docs[k].moves : k \in DOMAIN docs} :
        \A k \in DOMAIN docs : m >= docs[k].moves

\* the $group stage: one document, or none over an empty collection, and then
\* stats[0] || { averageMoves: 0, minMoves: 0, maxMoves: 0 }
GameStats ==
    IF scores = <<>>
    THEN [averageMoves |-> Zero, minMoves |-> 0, maxMoves |-> 0]
    ELSE [averageMoves |-> Quotient(SumMoves(scores), Len(scores)),
          minMoves |-> BestMoves(scores),
          maxMoves |-> WorstMoves(scores)]

\* totalUsers > 0 ? Math.round((totalScores / totalUsers) * 100) : 0
CompletionRate(totalScores, totalUsers) ==
    IF totalUsers > 0
    THEN MathRound(Times(Quotient(totalScores, totalUsers), 100))
    ELSE 0

\* the answer; averageMoves = Math.round(averageMoves * 10) / 10 is held as
\* its number of tenths
StatsResp(totalUsers, totalScores, gameStats) ==
    [op |-> "stats", status |-> 200,
     totalUsers |-> totalUsers,
     totalScores |-> totalScores,
     averageMoves |-> MathRound(Times(gameStats.averageMoves, 10)),
     bestScore |-> gameStats.minMoves,
     worstScore |-> gameStats.maxMoves,
     completionRate |-> CompletionRate(totalScores, totalUsers)]

\* GET /api/stats, up to await User.countDocuments()
Stats(r) ==
    /\ Free(r)
    /\ UNCHANGED <<users, scores, now, client>>
    /\ slot' = [slot EXCEPT ![r] = [pc |-> "statsScores", totalUsers |-> Len(users)]]

\* await Score.countDocuments()
StatsScores(r) ==
    /\ slot[r].pc = "statsScores"
    /\ UNCHANGED <<users, scores, now, client>>
    /\ slot' = [slot EXCEPT ![r] =
                    [pc |-> "statsGroup", totalUsers |-> slot[r].totalUsers,
                     totalScores |-> Len(scores)]]

\* await Score.aggregate([{ $group }]), then the answer
StatsGroup(r) ==
    /\ slot[r].pc = "statsGroup"
    /\ UNCHANGED <<users, scores, now, client>>
    /\ slot' = [slot EXCEPT ![r] =
                    Sent(StatsResp(slot[r].totalUsers, slot[r].totalScores, GameStats))]

\* ------------------------------------------------------------------ client
\* The React component GraphSeasonGame (src/frontend/src/App.js).  A click or
\* a button press runs its handler to the end, or to its first await, before
\* the next event is taken, and the component is rendered again in between:
\* every handler sees the state the one before it left.
Cells == 0..8
Null == -1          \* useState(null): no square is selected

InitialGrid == [i \in Cells |-> <<3, 6, 4, 2, 5, 8, 1, 7, 9>>[i + 1]]
TargetGrid == [i \in Cells |-> <<1, 2, 3, 4, 5, 6, 7, 8, 9>>[i + 1]]

Abs(x) == IF x < 0 THEN -x ELSE x

\* isAdjacent without the row case: neighbours in a column only
IsAdjacentInColumn(index1, index2) ==
    Abs((index1 \div 3) - (index2 \div 3)) = 1 /\ (index1 % 3) = (index2 % 3)

\* isAdjacent with the diagonals let in: rows and columns at most one apart
IsAdjacentOrDiagonal(index1, index2) ==
    /\ index1 # index2
    /\ Abs((index1 \div 3) - (index2 \div 3)) <= 1
    /\ Abs((index1 % 3) - (index2 % 3)) <= 1

\* isAdjacent without the column case: neighbours in a row only
IsAdjacentInRow(index1, index2) ==
    Abs((index1 % 3) - (index2 % 3)) = 1 /\ (index1 \div 3) = (index2 \div 3)

\* isAdjacent on the distance of the indices: 2 and 3 pass for neighbours
IsAdjacentByIndex(index1, index2) == Abs(index1 - index2) \in {1, 3}

IsAdjacent(index1, index2) ==
    LET row1 == index1 \div 3
        col1 == index1 % 3
        row2 == index2 \div 3
        col2 == index2 % 3
    IN \/ Abs(row1 - row2) = 1 /\ col1 = col2
       \/ Abs(col1 - col2) = 1 /\ row1 = row2

\* currentUser: null, or the user with the token the client holds
NoUser == [signedIn |-> FALSE]
SignedIn(token) == [signedIn |-> TRUE, token |-> token]

\* token: "offline-token", which no jwt.verify accepts
OfflineToken == AuthHeader("garbage", GhostId, 0)

\* the users a game may start with: nobody, a registered player, a player
\* signed in by the offline fallback
Visitors ==
    {NoUser, SignedIn(OfflineToken)}
    \cup {SignedIn(AuthHeader("jwt", u, 0)) : u \in 1..MaxUsers}

\* no registration is awaited: loading is false
NoRequest == [sent |-> FALSE]

\* the component as it mounts; register is the request handleAuth awaits
\* (loading is true while there is one)
Game(user) ==
    [currentUser |-> user, grid |-> InitialGrid, moves |-> 0,
     selectedSquare |-> Null, gameWon |-> FALSE, submitSuccess |-> "",
     fetches |-> <<>>, showAuth |-> FALSE, authError |-> "",
     register |-> NoRequest]

\* fetch(`${API_BASE}/scores`, ...) as it leaves the client
Fetch(token, finalMoves) == [token |-> token, moves |-> finalMoves]

\* submitScore(moves): the argument is the counter read before the swap
PostScoreStale(c, finalMoves) ==
    IF c.currentUser = NoUser THEN c
    ELSE [c EXCEPT !.fetches = Append(@, Fetch(c.currentUser.token, finalMoves - 1))]

\* submitScore(finalMoves), up to await fetch
PostScore(c, finalMoves) ==
    IF c.currentUser = NoUser THEN c
    ELSE [c EXCEPT !.fetches = Append(@, Fetch(c.currentUser.token, finalMoves))]

\* newGrid[a] = newGrid[b]; newGrid[b] = newGrid[a]: the first value is lost
SwappedInTurn(grid, a, b) == [grid EXCEPT ![a] = grid[b]]

\* [newGrid[a], newGrid[b]] = [newGrid[b], newGrid[a]]
Swapped(grid, a, b) == [grid EXCEPT ![a] = grid[b], ![b] = grid[a]]

\* the comparison of the first row only
MatchesFirstRow(newGrid, targetGrid) == \A i \in 0..2 : newGrid[i] = targetGrid[i]

\* JSON.stringify(newGrid) === JSON.stringify(targetGrid): the texts of two
\* arrays of nine one-digit numbers are equal exactly when the arrays are
Matches(newGrid, targetGrid) == \A i \in Cells : newGrid[i] = targetGrid[i]

\* the branch of an adjacent square without setSelectedSquare(null)
SwapWithKeepsSelection(c, index) ==
    LET newGrid == Swapped(c.grid, c.selectedSquare, index)
        swapped == [c EXCEPT !.grid = newGrid, !.moves = c.moves + 1]
        won == [swapped EXCEPT !.gameWon = TRUE, !.submitSuccess = ""]
    IN IF Matches(newGrid, TargetGrid)
       THEN IF c.currentUser # NoUser THEN PostScore(won, c.moves + 1) ELSE won
       ELSE swapped

\* handleSquareClick(index), the branch of an adjacent square: the swap, the
\* move, the completion check and the submission
SwapWith(c, index) ==
    LET newGrid == Swapped(c.grid, c.selectedSquare, index)
        swapped == [c EXCEPT !.grid = newGrid, !.moves = c.moves + 1,
                             !.selectedSquare = Null]
        won == [swapped EXCEPT !.gameWon = TRUE, !.submitSuccess = ""]
    IN IF Matches(newGrid, TargetGrid)
       THEN IF c.currentUser # NoUser THEN PostScore(won, c.moves + 1) ELSE won
       ELSE swapped

\* handleSquareClick without else if (selectedSquare === index)
ClickedNoDeselect(c, index) ==
    IF c.gameWon THEN c
    ELSE IF c.selectedSquare = Null THEN [c EXCEPT !.selectedSquare = index]
    ELSE IF IsAdjacent(c.selectedSquare, index) THEN SwapWith(c, index)
    ELSE [c EXCEPT !.selectedSquare = index]

\* handleSquareClick without if (gameWon) return
ClickedThoughWon(c, index) ==
    IF c.selectedSquare = Null THEN [c EXCEPT !.selectedSquare = index]
    ELSE IF c.selectedSquare = index THEN [c EXCEPT !.selectedSquare = Null]
    ELSE IF IsAdjacent(c.selectedSquare, index) THEN SwapWith(c, index)
    ELSE [c EXCEPT !.selectedSquare = index]

\* handleSquareClick(index): the state the click leaves
Clicked(c, index) ==
    IF c.gameWon THEN c
    ELSE IF c.selectedSquare = Null THEN [c EXCEPT !.selectedSquare = index]
    ELSE IF c.selectedSquare = index THEN [c EXCEPT !.selectedSquare = Null]
    ELSE IF IsAdjacent(c.selectedSquare, index) THEN SwapWith(c, index)
    ELSE [c EXCEPT !.selectedSquare = index]

\* a shortest sequence of swaps that takes initialGrid to targetGrid
Solution ==
    <<<<0, 1>>, <<0, 3>>, <<1, 2>>, <<0, 1>>, <<3, 4>>, <<3, 6>>, <<0, 3>>,
      <<4, 5>>, <<6, 7>>, <<4, 7>>>>

RECURSIVE After(_)
After(k) ==
    IF k = 0 THEN InitialGrid
    ELSE Swapped(After(k - 1), Solution[k][1], Solution[k][2])

RECURSIVE Near(_, _)
Near(grids, k) ==
    IF k = 0 THEN grids
    ELSE LET inner == Near(grids, k - 1)
         IN inner \cup {Swapped(g, pair[1], pair[2]) : g \in inner,
                            pair \in {sq \in Cells \X Cells : IsAdjacent(sq[1], sq[2])}}

\* the grids a game is followed through
Zone == Near({After(k) : k \in 0..Len(Solution)}, MaxAway)

\* onClick={() => handleSquareClick(index)}; the board is not rendered while
\* the registration dialog is shown (if (showAuth) return ...)
HandleSquareClick(index) ==
    /\ ~client.showAuth
    /\ LET next == Clicked(client, index)
       IN /\ next.grid \in Zone
          /\ next.moves <= MaxSwaps
          /\ Len(next.fetches) <= MaxPending
          /\ client' = next
    /\ UNCHANGED <<users, scores, now, slot>>

\* resetGame without setMoves(0)
ResetGameKeepsMoves ==
    /\ ~client.showAuth
    /\ client' = [client EXCEPT !.grid = InitialGrid, !.selectedSquare = Null,
                                !.gameWon = FALSE, !.submitSuccess = ""]
    /\ UNCHANGED <<users, scores, now, slot>>

\* onClick={resetGame}
ResetGame ==
    /\ ~client.showAuth
    /\ client' = [client EXCEPT !.grid = InitialGrid, !.moves = 0,
                                !.selectedSquare = Null, !.gameWon = FALSE,
                                !.submitSuccess = ""]
    /\ UNCHANGED <<users, scores, now, slot>>

\* onClick={logout}: the button is rendered for a signed-in user
Logout ==
    /\ ~client.showAuth
    /\ client.currentUser # NoUser
    /\ client' = [client EXCEPT !.currentUser = NoUser]
    /\ UNCHANGED <<users, scores, now, slot>>

\* the fetches of the sequence but the i-th
Without(fetches, i) ==
    [k \in 1..(Len(fetches) - 1) |-> IF k < i THEN fetches[k] ELSE fetches[k + 1]]

\* submitScore after await fetch: response.ok and the server's message, or a
\* refusal or a network failure and "Score saved locally"; a token that
\* authenticateToken refuses is never answered ok
ScoreAnswered ==
    /\ \E i \in DOMAIN client.fetches, ok \in BOOLEAN :
          /\ ok => Verifies(client.fetches[i].token)
          /\ client' = [client EXCEPT
                           !.fetches = Without(@, i),
                           !.submitSuccess = IF ok THEN "message" ELSE "local"]
    /\ UNCHANGED <<users, scores, now, slot>>

\* onClick={() => setShowAuth(true)}: the button is rendered for a visitor
\* who is not signed in
OpenAuth ==
    /\ ~client.showAuth
    /\ client.currentUser = NoUser
    /\ client' = [client EXCEPT !.showAuth = TRUE]
    /\ UNCHANGED <<users, scores, now, slot>>

\* the dialog's Cancel: onClick={() => setShowAuth(false)}, disabled={loading}
CancelAuth ==
    /\ client.showAuth
    /\ client.register = NoRequest
    /\ client' = [client EXCEPT !.showAuth = FALSE]
    /\ UNCHANGED <<users, scores, now, slot>>

\* what the visitor may have typed into the dialog
FormNames == {Name(0, 1), Name(MinNameLen, 1)}
FormEmails == {Email(1, FALSE, "bad"), Email(1, TRUE, "ok")}

\* validateEmail(email): the pattern accepts either case
ValidateEmail(email) == email.shape = "ok"

\* handleAuth, up to await fetch(`${API_BASE}/auth/register`, ...)
HandleAuth(name, email) ==
    /\ client.showAuth
    /\ client.register = NoRequest
    /\ UNCHANGED <<users, scores, now, slot>>
    /\ IF Trim(name) = 0
       THEN client' = [client EXCEPT !.authError = "name"]
       ELSE IF ~ValidateEmail(email)
       THEN client' = [client EXCEPT !.authError = "email"]
       ELSE client' = [client EXCEPT
                          !.authError = "",
                          !.register = [sent |-> TRUE, name |-> Name(Trim(name), 0),
                                        email |-> ToLowerCase(email)]]

\* handleAuth after the fetch and response.json(): response.ok signs the
\* player in with the server's token, any other status shows the error
AuthAnswered(r) ==
    /\ client.register # NoRequest
    /\ slot[r].pc = "sent"
    /\ slot[r].resp.op = "register"
    /\ slot' = [slot EXCEPT ![r] = Idle]
    /\ UNCHANGED <<users, scores, now>>
    /\ IF slot[r].resp.status = 201
       THEN client' = [client EXCEPT
                          !.currentUser = SignedIn(AuthHeader("jwt", slot[r].resp.uid, 0)),
                          !.showAuth = FALSE,
                          !.register = NoRequest]
       ELSE client' = [client EXCEPT !.authError = "failed", !.register = NoRequest]

\* the catch block without the fallback: the error is shown, nobody is
\* signed in
AuthFailedNoFallback ==
    /\ client.register # NoRequest
    /\ client' = [client EXCEPT !.authError = "offline", !.register = NoRequest]
    /\ UNCHANGED <<users, scores, now, slot>>

\* handleAuth's catch block: the fetch was rejected (no connection, no
\* server, no JSON in the answer); the player is signed in with
\* token: "offline-token"
AuthFailed ==
    /\ client.register # NoRequest
    /\ client' = [client EXCEPT
                     !.authError = "offline",
                     !.currentUser = SignedIn(OfflineToken),
                     !.showAuth = FALSE,
                     !.register = NoRequest]
    /\ UNCHANGED <<users, scores, now, slot>>

\* the registration the client awaits reaches the server
ServeRegister(r) ==
    /\ client.register # NoRequest
    /\ Register(r, client.register.name, client.register.email)

\* a score submission of the client reaches the server
ServeScore(r) ==
    \E k \in DOMAIN client.fetches :
        SubmitScore(r, client.fetches[k].token, client.fetches[k].moves)

\* an answer leaves the server; the answer to the registration the client
\* awaits is read by handleAuth
Discard(r) ==
    /\ slot[r].pc = "sent"
    /\ slot[r].resp.op = "register" => client.register = NoRequest
    /\ Close(r)

\* ------------------------------------------------------------------ clock
Tick ==
    /\ now < MaxTime
    /\ now' = now + 1
    /\ UNCHANGED <<users, scores, slot, client>>

\* ----------------------------------------------------------- specification
\* the player that registered i-th, with a well-formed name and email
Player(i) == [name |-> MinNameLen, email |-> Email(i, FALSE, "ok")]

\* The ledger and the protected handlers, over a registry that holds MaxUsers
\* players and an empty scores collection.
Init ==
    /\ users = [i \in 1..MaxUsers |-> Player(i)]
    /\ scores = <<>>
    /\ now = 0
    /\ slot = [r \in Slots |-> Idle]
    /\ client = Game(NoUser)

Next ==
    \/ \E r \in Slots, hdr \in AuthHeaders, m \in MovesInputs : SubmitScore(r, hdr, m)
    \/ \E r \in Slots : ScoreFindOne(r)
    \/ \E r \in Slots : ScoreSaveNew(r)
    \/ \E r \in Slots : ScoreSaveUpdate(r)
    \/ \E r \in Slots, hdr \in AuthHeaders : UserScore(r, hdr)
    \/ \E r \in Slots : UserScoreCount(r)
    \/ \E r \in Slots : Close(r)
    \/ Tick

Spec == Init /\ [][Next]_vars

\* The whole server from empty collections: the registry fills while the
\* ledger is in use.
InitServer ==
    /\ users = <<>>
    /\ scores = <<>>
    /\ now = 0
    /\ slot = [r \in Slots |-> Idle]
    /\ client = Game(NoUser)

NextServer ==
    \/ \E r \in Slots, name \in NameInputs, email \in EmailInputs : Register(r, name, email)
    \/ \E r \in Slots : RegisterSave(r)
    \/ Next

SpecServer == InitServer /\ [][NextServer]_vars

\* The registry alone: registrations and logins that overlap.
NextRegistry ==
    \/ \E r \in Slots, name \in NameInputs, email \in EmailInputs : Register(r, name, email)
    \/ \E r \in Slots : RegisterSave(r)
    \/ \E r \in Slots, email \in EmailInputs : Login(r, email)
    \/ \E r \in Slots : Close(r)

SpecRegistry == InitServer /\ [][NextRegistry]_vars

\* Every route that writes or signs in, over a registry with one seat left:
\* registrations and logins go on while scores are submitted.
Applicants == {Name(0, 0), Name(MinNameLen, 1)}
Addresses == {Email(b, FALSE, "ok") : b \in 1..MaxUsers} \cup {Email(1, FALSE, "bad")}

InitRoutes ==
    /\ users = <<Player(1)>>
    /\ scores = <<>>
    /\ now = 0
    /\ slot = [r \in Slots |-> Idle]
    /\ client = Game(NoUser)

NextRoutes ==
    \/ \E r \in Slots, name \in Applicants, email \in Addresses : Register(r, name, email)
    \/ \E r \in Slots : RegisterSave(r)
    \/ \E r \in Slots, email \in Addresses : Login(r, email)
    \/ \E r \in Slots, hdr \in AuthHeaders, m \in MovesInputs : SubmitScore(r, hdr, m)
    \/ \E r \in Slots : ScoreFindOne(r)
    \/ \E r \in Slots : ScoreSaveNew(r)
    \/ \E r \in Slots : ScoreSaveUpdate(r)
    \/ \E r \in Slots : Close(r)
    \/ Tick

SpecRoutes == InitRoutes /\ [][NextRoutes]_vars

\* Submissions of different players that overlap: slot p serves the calls of
\* player p, each of which holds p's own token, so that a player has at most
\* one call in flight.
LaneSubmit(r, m) ==
    \E age \in TokenAges : SubmitScore(r, AuthHeader("jwt", r, age), m)

NextLanes ==
    \/ \E r \in Slots, m \in MovesInputs : LaneSubmit(r, m)
    \/ \E r \in Slots : ScoreFindOne(r)
    \/ \E r \in Slots : ScoreSaveNew(r)
    \/ \E r \in Slots : ScoreSaveUpdate(r)
    \/ \E r \in Slots : Close(r)
    \/ Tick

SpecLanes == Init /\ [][NextLanes]_vars

\* The statistics over a crowd: n players, the first s of whom have a record,
\* the first with m moves and the others with the least a record can hold.
Crowd(n, s, m) ==
    /\ users = [i \in 1..n |-> Player(i)]
    /\ scores = [i \in 1..s |-> ScoreDoc(i, IF i = 1 THEN m ELSE MinMoves, 0)]
    /\ now = 0
    /\ slot = [r \in Slots |-> Idle]
    /\ client = Game(NoUser)

InitStats == \E n \in 0..MaxCrowd, m \in 1..MaxMoves : \E s \in 0..n : Crowd(n, s, m)

NextStats == Stats(1) \/ StatsScores(1) \/ StatsGroup(1) \/ Close(1)

SpecStats == InitStats /\ [][NextStats]_vars

\* Submissions that do not overlap: a call is taken when the one before it
\* has been answered.
NextSerial ==
    \/ \E hdr \in AuthHeaders, m \in MovesInputs : SubmitScore(1, hdr, m)
    \/ ScoreFindOne(1)
    \/ ScoreSaveNew(1)
    \/ ScoreSaveUpdate(1)
    \/ Close(1)
    \/ Tick

SpecSerial == Init /\ [][NextSerial]_vars

\* The client and the server it talks to, from empty collections: the
\* visitor registers, or fails to, plays, and the submissions of the game
\* reach the server.
NextOffline ==
    \/ OpenAuth
    \/ CancelAuth
    \/ \E name \in FormNames, email \in FormEmails : HandleAuth(name, email)
    \/ AuthAnswered(1)
    \/ AuthFailed
    \/ \E index \in Cells : HandleSquareClick(index)
    \/ ResetGame
    \/ Logout
    \/ ScoreAnswered
    \/ ServeRegister(1)
    \/ RegisterSave(1)
    \/ ServeScore(1)
    \/ ScoreFindOne(1)
    \/ ScoreSaveNew(1)
    \/ ScoreSaveUpdate(1)
    \/ Discard(1)

SpecOffline == InitServer /\ [][NextOffline]_vars

\* The ledger as the server of src/frontend/src/App.js runs it: its handler
\* continues as the one of server.js does (findOne, the comparison, the save).
NextCopy ==
    \/ \E r \in Slots, hdr \in AuthHeaders, m \in MovesInputs : SubmitScoreCopy(r, hdr, m)
    \/ \E r \in Slots : ScoreFindOne(r)
    \/ \E r \in Slots : ScoreSaveNew(r)
    \/ \E r \in Slots : ScoreSaveUpdate(r)
    \/ \E r \in Slots : Close(r)
    \/ Tick

SpecCopy == Init /\ [][NextCopy]_vars

\* One visitor playing the puzzle, the server at rest.
InitPuzzle ==
    /\ users = [i \in 1..MaxUsers |-> Player(i)]
    /\ scores = <<>>
    /\ now = 0
    /\ slot = [r \in Slots |-> Idle]
    /\ client \in {Game(user) : user \in Visitors}

NextPuzzle ==
    \/ \E index \in Cells : HandleSquareClick(index)
    \/ ResetGame
    \/ Logout
    \/ ScoreAnswered

SpecPuzzle == InitPuzzle /\ [][NextPuzzle]_vars

\* A ledger at rest: n players with one record each.
Ledger(n) ==
    /\ users = [i \in 1..n |-> Player(i)]
    /\ scores \in [1..n -> [userId : 1..n, moves : 1..MaxMoves,
                            completedAt : 0..MaxTime]]
    /\ \A i \in 1..n : scores[i].userId = i
    /\ now = MaxTime
    /\ slot = [r \in Slots |-> Idle]
    /\ client = Game(NoUser)

BoardQuery(r) ==
    \/ \E qlimit \in QueryInputs(MaxLimit), qpage \in QueryInputs(MaxPage) :
          Leaderboard(r, qlimit, qpage)
    \/ LeaderboardCount(r)
    \/ Close(r)

\* The ranker answering one query after the other over any ledger of up to
\* MaxBoard records.
InitBoard == \E n \in 0..MaxBoard : Ledger(n)

NextBoard == BoardQuery(1)

SpecBoard == InitBoard /\ [][NextBoard]_vars

\* The ranker answering queries that overlap, over any ledger of up to
\* MaxTied records.
InitPair == \E n \in 0..MaxTied : Ledger(n)

NextPair == \E r \in Slots : BoardQuery(r)

SpecPair == InitPair /\ [][NextPair]_vars

\* Players asking for their rank over a ledger at rest of up to MaxRanked
\* records, a player's overlapping first submissions having left duplicates
\* in some.
InitRank ==
    /\ users = [i \in 1..MaxUsers |-> Player(i)]
    /\ \E n \in 0..MaxRanked :
          scores \in [1..n -> [userId : 1..MaxUsers, moves : 1..MaxMoves,
                               completedAt : 0..MaxTime]]
    /\ now = MaxTime
    /\ slot = [r \in Slots |-> Idle]
    /\ client = Game(NoUser)

NextRank ==
    \/ \E r \in Slots, hdr \in AuthHeaders : UserScore(r, hdr)
    \/ \E r \in Slots : UserScoreCount(r)
    \/ \E r \in Slots : Close(r)

SpecRank == InitRank /\ [][NextRank]_vars

\* The ranker and the players' own standing over one unchanged ledger of up
\* to MaxTied records: slot 1 answers leaderboard queries while the other
\* slots answer players who ask for their score.
NextStanding ==
    \/ BoardQuery(1)
    \/ \E r \in Slots \ {1}, u \in 1..MaxUsers : UserScore(r, AuthHeader("jwt", u, 0))
    \/ \E r \in Slots \ {1} : UserScoreCount(r)
    \/ \E r \in Slots \ {1} : Close(r)

SpecStanding == InitPair /\ [][NextStanding]_vars

\* The statistics taken while the collections change: registrations and
\* score submissions of registered players go on between the three queries
\* of GET /api/stats.
NextCensus ==
    \/ \E r \in Slots, email \in Addresses : Register(r, Name(MinNameLen, 0), email)
    \/ \E r \in Slots : RegisterSave(r)
    \/ \E r \in Slots, u \in 1..MaxUsers, m \in MinMoves..MaxMoves :
          SubmitScore(r, AuthHeader("jwt", u, 0), m)
    \/ \E r \in Slots : ScoreFindOne(r)
    \/ \E r \in Slots : ScoreSaveNew(r)
    \/ \E r \in Slots : ScoreSaveUpdate(r)
    \/ \E r \in Slots : Stats(r)
    \/ \E r \in Slots : StatsScores(r)
    \/ \E r \in Slots : StatsGroup(r)
    \/ \E r \in Slots : Close(r)

SpecCensus == InitRoutes /\ [][NextCensus]_vars

\* ================================================================== claims
\* the response slot r holds, if it holds one
Answered(r, response) == slot[r].pc = "sent" /\ slot[r].resp = response

\* slot r takes a request in this step
Takes(r) == slot[r].pc = "idle" /\ slot'[r].pc # "idle"

RecordsOf(collection, uid) == {i \in DOMAIN collection : collection[i].userId = uid}

\* ------------------------------------------------------------------- C1
\* C1: in every reachable state of the store there is at most one ScoreRecord
\* per player, also when two submitScore calls of one player overlap.
OneRecordPerPlayer ==
    \A i, j \in DOMAIN scores : scores[i].userId = scores[j].userId => i = j

\* ------------------------------------------------------------------- C2
\* C2: the moves value of a stored ScoreRecord never increases from one store
\* state to the next.
MovesNeverIncrease ==
    [][\A i \in DOMAIN scores : scores'[i].moves <= scores[i].moves]_vars

\* ------------------------------------------------------------------- C3
\* C3: when submitScore(p, m) reads the ledger and p has a record with
\* moves <= m, the call writes nothing and answers at once with the moves and
\* completedAt of such a record and improved: false.
NotImprovedKeepsRecord ==
    [][\A r \in Slots :
          (/\ ScoreFindOne(r)
           /\ \E i \in ScoresOf(slot[r].uid) : scores[i].moves <= slot[r].moves)
          => /\ scores' = scores
             /\ \E i \in ScoresOf(slot[r].uid) :
                   /\ scores[i].moves <= slot[r].moves
                   /\ slot'[r] = Sent(ScoreResp(200, scores[i].moves,
                                                scores[i].completedAt, FALSE))]_vars

\* ------------------------------------------------------------------- C4
\* C4: when submitScore(p, m), m >= 1, found no record of p or a record with
\* moves > m, its save leaves exactly one record for p, holding m and the time
\* of the submission, and the call answers with both and improved: true.
ImprovedStoresOnce ==
    [][\A r \in Slots :
          (ScoreSaveNew(r) \/ ScoreSaveUpdate(r))
          => /\ Cardinality(RecordsOf(scores', slot[r].uid)) = 1
             /\ \A i \in RecordsOf(scores', slot[r].uid) :
                   /\ scores'[i].moves = slot[r].moves
                   /\ scores'[i].completedAt = slot[r].at
             /\ slot'[r].pc = "sent"
             /\ slot'[r].resp.moves = slot[r].moves
             /\ slot'[r].resp.completedAt = slot[r].at
             /\ slot'[r].resp.improved]_vars

\* ------------------------------------------------------------------- C5
\* a credential the middleware lets through: well signed, younger than 7 days
GoodCredentials == {hdr \in AuthHeaders : hdr.kind = "jwt" /\ hdr.age < 7}

\* C5: submitScore with moves < 1 and a good credential is answered 400 and
\* changes neither collection, whoever the player is and whatever the
\* player's record.
LowMovesRejected ==
    [][\A r \in Slots, hdr \in GoodCredentials, m \in {n \in MovesInputs : n < 1} :
          (Takes(r) /\ SubmitScore(r, hdr, m))
          => /\ slot'[r] = Sent(ScoreErr(400))
             /\ scores' = scores
             /\ users' = users]_vars

LowMovesRejectedSeen ==
    \E r \in Slots : Answered(r, ScoreErr(400)) /\ scores # <<>>

\* ------------------------------------------------------------------- C6
\* C6: submitScore with a good credential for an id that no Player has, and
\* moves that pass the check, is answered 404 and creates no ScoreRecord, by
\* either server of the repository; so every ScoreRecord belongs to a Player.
UnknownPlayerRejected ==
    [][/\ \A r \in Slots, hdr \in GoodCredentials, m \in {n \in MovesInputs : n >= 1} :
             (/\ Takes(r)
              /\ hdr.uid \notin DOMAIN users
              /\ SubmitScore(r, hdr, m) \/ SubmitScoreCopy(r, hdr, m))
             => slot'[r] = Sent(ScoreErr(404)) /\ scores' = scores
       /\ \A i \in DOMAIN scores' : scores'[i].userId \in DOMAIN users']_vars

\* ------------------------------------------------------------------- C7
NoBearerToken == {hdr \in AuthHeaders : hdr.kind \in {"absent", "noToken"}}
InvalidOrExpired ==
    {hdr \in AuthHeaders : hdr.kind = "garbage" \/ (hdr.kind = "jwt" /\ hdr.age > 7)}

Refused(r, op, status) ==
    /\ users' = users
    /\ scores' = scores
    /\ slot'[r] = Sent([op |-> op, status |-> status])

\* C7: a submit-score or player-score request without a bearer token is
\* answered 401, one with an invalid token or one older than 7 days 403; the
\* handler does not start and both collections stay as they are.
BadCredentialRefused ==
    [][\A r \in Slots :
          Takes(r) =>
          /\ \A hdr \in NoBearerToken :
                /\ (\E m \in MovesInputs : SubmitScore(r, hdr, m)) => Refused(r, "scores", 401)
                /\ UserScore(r, hdr) => Refused(r, "userScore", 401)
          /\ \A hdr \in InvalidOrExpired :
                /\ (\E m \in MovesInputs : SubmitScore(r, hdr, m)) => Refused(r, "scores", 403)
                /\ UserScore(r, hdr) => Refused(r, "userScore", 403)]_vars

BadCredentialRefusedSeen ==
    /\ scores # <<>>
    /\ \E r, q \in Slots : Answered(r, ScoreErr(401)) /\ Answered(q, RankErr(403))

\* ------------------------------------------------------------------- C8
\* the entries a slot has ranked, or has sent in a 200
BoardEntries(r) ==
    IF slot[r].pc = "boardCount" THEN slot[r].entries
    ELSE IF slot[r].pc = "sent" /\ slot[r].resp.op = "leaderboard"
            /\ slot[r].resp.status = 200
    THEN slot[r].resp.leaderboard
    ELSE <<>>

InOrder(a, b) ==
    \/ a.moves < b.moves
    \/ a.moves = b.moves /\ a.completedAt <= b.completedAt

\* C8: the entries getLeaderboard returns are ordered by moves ascending and,
\* among equal moves, by completedAt ascending.
BoardSorted ==
    \A r \in Slots :
       LET e == BoardEntries(r)
       IN \A k \in 1..(Len(e) - 1) : InOrder(e[k], e[k + 1])

\* a ledger stored as [20, 10, 10, 30] and returned as 10 (earlier),
\* 10 (later), 20, 30
BoardSortedSeen ==
    \E r \in Slots :
       LET e == BoardEntries(r)
       IN /\ slot[r].pc = "sent"
          /\ Len(e) = 4
          /\ Len(scores) = 4
          /\ scores[1].moves > scores[2].moves
          /\ scores[2].moves = scores[3].moves
          /\ scores[2].completedAt > scores[3].completedAt
          /\ scores[1].moves < scores[4].moves
          /\ e[1].moves = e[2].moves
          /\ e[1].completedAt < e[2].completedAt
          /\ e[2].moves < e[3].moves
          /\ e[3].moves < e[4].moves

\* ------------------------------------------------------------------- C9
\* C9: over an unchanged store a record has the same rank in every window it
\* appears in, and the first entry of page p has rank (p - 1) * limit + 1.
RankIsGlobalPosition ==
    /\ \A r, q \in Slots :
          \A i \in DOMAIN BoardEntries(r), j \in DOMAIN BoardEntries(q) :
             BoardEntries(r)[i].email = BoardEntries(q)[j].email
             => BoardEntries(r)[i].rank = BoardEntries(q)[j].rank
    /\ \A r \in Slots :
          (slot[r].pc = "boardCount" /\ slot[r].entries # <<>>)
          => slot[r].entries[1].rank = (slot[r].page - 1) * slot[r].limit + 1

\* ------------------------------------------------------------------ C10
\* C10: for page >= 1 and limit >= 1 the answer carries currentPage = page,
\* totalScores = the number of ScoreRecords, totalPages = ceil(totalScores /
\* limit), hasNext = (page * limit < totalScores), hasPrev = (page > 1); with
\* limit 2 and page 2 over 5 records: ranks 3 and 4, hasNext, hasPrev and 3
\* pages.
PaginationMetadata ==
    [][\A r \in Slots :
          (LeaderboardCount(r) /\ slot[r].page >= 1 /\ slot[r].limit >= 1)
             => LET page == slot[r].page
                    limit == slot[r].limit
                    total == Len(scores)
                    answer == slot'[r].resp
                IN /\ slot'[r].pc = "sent"
                   /\ answer.status = 200
                   /\ answer.currentPage = page
                   /\ answer.totalScores = total
                   /\ answer.totalPages * limit >= total
                   /\ (answer.totalPages - 1) * limit < total
                   /\ answer.totalPages >= 0
                   /\ answer.hasNext = (page * limit < total)
                   /\ answer.hasPrev = (page > 1)
                   /\ (limit = 2 /\ page = 2 /\ total = 5)
                      => /\ [k \in DOMAIN answer.leaderboard |->
                                answer.leaderboard[k].rank] = <<3, 4>>
                         /\ answer.hasNext
                         /\ answer.hasPrev
                         /\ answer.totalPages = 3]_vars

PaginationExampleSeen ==
    \E r \in Slots :
       /\ slot[r].pc = "sent"
       /\ slot[r].resp.op = "leaderboard"
       /\ slot[r].resp.status = 200
       /\ Len(scores) = 5
       /\ slot[r].resp.currentPage = 2
       /\ slot[r].resp.totalPages = 3
       /\ slot[r].resp.totalScores = 5
       /\ slot[r].resp.hasNext
       /\ slot[r].resp.hasPrev
       /\ Len(slot[r].resp.leaderboard) = 2
       /\ slot[r].resp.leaderboard[1].rank = 3
       /\ slot[r].resp.leaderboard[2].rank = 4

\* ------------------------------------------------------------------ C11
\* the value the claim gives a parameter: the integer it parses to when that
\* is positive, the default otherwise
PositiveOr(q, dflt) == IF q.kind = "int" /\ q.val >= 1 THEN q.val ELSE dflt

\* C11: getLeaderboard uses page 1 when the page parameter is absent or does
\* not parse to a positive integer and limit 50 when the limit parameter is
\* absent or does not parse to a positive integer, so that it goes to the
\* store with a skip >= 0 and a limit >= 1.
DefaultsWhenNotPositive ==
    [][\A r \in Slots, qlimit \in QueryInputs(MaxLimit), qpage \in QueryInputs(MaxPage) :
          (Takes(r) /\ Leaderboard(r, qlimit, qpage))
          => /\ slot'[r].pc = "boardCount"
             /\ slot'[r].limit = PositiveOr(qlimit, 50)
             /\ slot'[r].page = PositiveOr(qpage, 1)
             /\ slot'[r].limit >= 1
             /\ (slot'[r].page - 1) * slot'[r].limit >= 0]_vars

\* ------------------------------------------------------------------ C12
\* records strictly better than (moves, completedAt), counted from the store
StrictlyBetter(m, at) ==
    {i \in DOMAIN scores :
        scores[i].moves < m \/ (scores[i].moves = m /\ scores[i].completedAt < at)}

\* answer p is for a record tied on moves with the record of answer c, which
\* was completed earlier, and the store holds no other record from c up to p
TiedBehind(p, c) ==
    /\ p.hasScore /\ c.hasScore
    /\ p.moves = c.moves
    /\ c.completedAt < p.completedAt
    /\ Cardinality({i \in DOMAIN scores :
            /\ scores[i].moves = p.moves
            /\ scores[i].completedAt >= c.completedAt
            /\ scores[i].completedAt < p.completedAt}) = 1

RankAnswers == {r \in Slots : slot[r].pc = "sent" /\ slot[r].resp.op = "userScore"
                                /\ slot[r].resp.status = 200}

\* C12: getPlayerRank of a player with a record answers with a record of that
\* player and rank = 1 + the number of records with fewer moves, or equal moves
\* and earlier completedAt; a record tied on moves behind a competitor with
\* nothing from the one to the other has the competitor's rank + 1; a player
\* without a record gets hasScore: false and nothing else.
RankCountsBetter ==
    [][\A r \in Slots :
          /\ UserScoreCount(r)
             => /\ slot'[r].pc = "sent"
                /\ slot'[r].resp.hasScore
                /\ \E i \in DOMAIN scores :
                      /\ scores[i].moves = slot'[r].resp.moves
                      /\ scores[i].completedAt = slot'[r].resp.completedAt
                /\ slot'[r].resp.rank =
                      1 + Cardinality(StrictlyBetter(slot'[r].resp.moves,
                                                     slot'[r].resp.completedAt))
          /\ \A hdr \in GoodCredentials :
                (Takes(r) /\ UserScore(r, hdr))
                => IF \E i \in DOMAIN scores : scores[i].userId = hdr.uid
                   THEN /\ slot'[r].pc = "rankCount"
                        /\ slot'[r].score.userId = hdr.uid
                   ELSE /\ slot'[r].pc = "sent"
                        /\ slot'[r].resp = [op |-> "userScore", status |-> 200,
                                            hasScore |-> FALSE]
          /\ \A q \in RankAnswers :
                (r \in RankAnswers /\ TiedBehind(slot[r].resp, slot[q].resp))
                => slot[r].resp.rank = slot[q].resp.rank + 1]_vars

\* two players tied on moves behind a better third: ranks 2 and 3
TiedRankSeen ==
    \E r, q \in RankAnswers :
       /\ TiedBehind(slot[r].resp, slot[q].resp)
       /\ slot[q].resp.rank = 2
       /\ slot[r].resp.rank = 3
       /\ Len(scores) = 3

\* ------------------------------------------------------------------ C13
\* C13: the grid is a permutation of 1..9 in every reachable state.
GridIsPermutation ==
    /\ DOMAIN client.grid = 0..8
    /\ {client.grid[i] : i \in 0..8} = 1..9

GridPermutedSeen ==
    /\ client.moves >= 3
    /\ \A i \in 0..2 : client.grid[i] # InitialGrid[i]

\* ------------------------------------------------------------------ C14
\* cells next to each other in a row or in a column of the 3 x 3 board
Neighbours(i, j) ==
    Abs((i \div 3) - (j \div 3)) + Abs((i % 3) - (j % 3)) = 1

Unselected(c) == ~c.gameWon /\ c.selectedSquare = -1

\* C14: in an unsolved state with no selection, for adjacent i # j,
\* selectOrSwap(i); selectOrSwap(j) exchanges grid[i] and grid[j], leaves the
\* other cells as they are, adds exactly 1 to moveCount and leaves no cell
\* selected.
AdjacentPairSwaps ==
    Unselected(client) =>
       \A i, j \in 0..8 :
          Neighbours(i, j) =>
             LET after == Clicked(Clicked(client, i), j)
             IN /\ after.grid[i] = client.grid[j]
                /\ after.grid[j] = client.grid[i]
                /\ \A k \in (0..8) \ {i, j} : after.grid[k] = client.grid[k]
                /\ after.moves = client.moves + 1
                /\ after.selectedSquare = -1

\* the cells 3 and 0, one above the other, were clicked in an opened game
AdjacentPairSwapsSeen ==
    /\ client.moves = 2
    /\ client.selectedSquare = -1
    /\ client.grid[0] = 2
    /\ client.grid[3] = 6
    /\ client.grid[1] = 3

\* ------------------------------------------------------------------ C15
\* C15: in an unsolved state with no selection, selectOrSwap(i);
\* selectOrSwap(i) leaves the state as it was.
SameCellTwiceIsNoOp ==
    Unselected(client) => \A i \in 0..8 : Clicked(Clicked(client, i), i) = client

SameCellTwiceSeen ==
    /\ Unselected(client)
    /\ client.moves >= 1
    /\ client.grid # InitialGrid

\* ------------------------------------------------------------------ C16
\* C16: with cell s selected and the puzzle unsolved, selectOrSwap(j) for a
\* j # s that is not adjacent to s leaves grid and moveCount unchanged and
\* makes j the selected cell.
FarCellMovesSelection ==
    (~client.gameWon /\ client.selectedSquare \in 0..8) =>
       \A j \in 0..8 :
          (j # client.selectedSquare /\ ~Neighbours(client.selectedSquare, j))
          => LET after == Clicked(client, j)
             IN /\ after.grid = client.grid
                /\ after.moves = client.moves
                /\ after.selectedSquare = j
                /\ ~after.gameWon

\* after the first swap the selection has come to 3, next index after 2 but
\* in the next row
FarCellMovesSelectionSeen ==
    /\ client.selectedSquare = 3
    /\ client.moves = 1
    /\ client.grid[0] = 6
    /\ client.grid[1] = 3

\* ------------------------------------------------------------------ C17
\* C17: in every reachable state solved is true exactly when the grid equals
\* [1..9].
SolvedIffTarget ==
    client.gameWon <=> (\A i \in 0..8 : client.grid[i] = i + 1)

SolvedSeen ==
    /\ client.gameWon
    /\ client.moves = 10

\* ------------------------------------------------------------------ C18
\* C18: once solved, every selectOrSwap leaves grid, moveCount, selection and
\* solved as they are; a step that ends solved is reset, and it leads to the
\* unselected state.
SolvedUntilReset ==
    [][client.gameWon =>
          /\ \A index \in 0..8 : Clicked(client, index) = client
          /\ \A index \in 0..8 : HandleSquareClick(index) => client' = client
          /\ ~client'.gameWon =>
                /\ ResetGame
                /\ client'.selectedSquare = -1
                /\ ~client'.gameWon]_vars

\* a game won and then reset while its submission is in flight
SolvedThenResetSeen ==
    /\ client.fetches # <<>>
    /\ ~client.gameWon
    /\ client.moves = 0

\* ------------------------------------------------------------------ C19
\* C19: reset() yields grid [3,6,4,2,5,8,1,7,9], moveCount 0, no selection
\* and solved false, and changes neither the current user nor the store.
ResetRestores ==
    [][ResetGame =>
          /\ client'.grid = [i \in 0..8 |-> <<3, 6, 4, 2, 5, 8, 1, 7, 9>>[i + 1]]
          /\ client'.moves = 0
          /\ client'.selectedSquare = -1
          /\ ~client'.gameWon
          /\ client'.currentUser = client.currentUser
          /\ users' = users
          /\ scores' = scores]_vars

\* a reset of a solved game, of a game with a selection, of a game under way
ResetSeen ==
    /\ client.grid = InitialGrid
    /\ client.moves = 0
    /\ client.fetches # <<>>
    /\ client.currentUser # NoUser

\* ------------------------------------------------------------------ C20
\* C20: a swap that makes the grid equal to the target while a user is signed
\* in sends exactly one submission, with the user's token and moves = the
\* number of swaps since the last reset (the counter: 0 at a reset, one more
\* at every swap, else unchanged); no other step sends one.
WinSubmitsOnce ==
    [][/\ IF ~client.gameWon /\ client'.gameWon /\ client.currentUser # NoUser
          THEN client'.fetches =
                  Append(client.fetches, [token |-> client.currentUser.token,
                                          moves |-> client.moves + 1])
          ELSE \A f \in {client'.fetches[k] : k \in DOMAIN client'.fetches} :
                  /\ Len(client'.fetches) <= Len(client.fetches)
                  /\ \E k \in DOMAIN client.fetches : client.fetches[k] = f
       /\ \/ client'.moves = client.moves /\ client'.grid = client.grid
          \/ /\ client'.moves = client.moves + 1
             /\ \E i, j \in 0..8 :
                   /\ Neighbours(i, j)
                   /\ client'.grid = [client.grid EXCEPT ![i] = client.grid[j],
                                                         ![j] = client.grid[i]]
          \/ client'.moves = 0 /\ client'.grid = InitialGrid]_vars

\* a win after a detour: twelve swaps, submitted as twelve
WinSubmittedSeen ==
    /\ client.gameWon
    /\ client.moves = 12
    /\ Len(client.fetches) = 1
    /\ client.fetches[1].moves = 12
    /\ client.fetches[1].token.kind = "jwt"

\* ------------------------------------------------------------------ C21
\* what the claims call a well-formed registration: the trimmed name has 2 to
\* 50 characters and the lower-cased email has the institute's shape
WellFormed(len, email) ==
    /\ len \in 2..50
    /\ [email EXCEPT !.upper = FALSE].shape = "ok"

\* a register handler gives its answer in this step
RegisterAnswers(r) ==
    /\ slot[r].pc \in {"idle", "regSave"}
    /\ slot'[r].pc = "sent"
    /\ slot'[r].resp.op = "register"

\* C21: register stores a Player only for a trimmed name of 2 to 50
\* characters and an email that has the institute's shape once lower-cased;
\* any other request is answered 400 with no credential and leaves the
\* registry as it was.
RegisterValidates ==
    [][\A r \in Slots :
          /\ users' # users =>
                \E q \in Slots :
                   /\ slot[q].pc = "regSave"
                   /\ WellFormed(slot[q].doc.name, slot[q].doc.email)
                   /\ users' = Append(users, slot[q].doc)
          /\ \A name \in NameInputs, email \in EmailInputs :
                Takes(r) /\ Register(r, name, email) /\ ~WellFormed(name.len, email) =>
                   /\ users' = users
                   /\ \/ slot'[r] = Sent(RegResp(400, 0))
                      \/ /\ slot'[r].pc = "regSave"
                         /\ ~WellFormed(slot'[r].doc.name, slot'[r].doc.email)
          /\ /\ slot[r].pc = "regSave"
             /\ slot'[r] # slot[r]
             /\ ~WellFormed(slot[r].doc.name, slot[r].doc.email)
             => users' = users /\ slot'[r] = Sent(RegResp(400, 0))]_vars

\* a name of 50 characters is stored and another request is answered 400
RegisterValidatesSeen ==
    /\ \E i \in DOMAIN users : users[i].name = 50
    /\ \E r \in Slots : slot[r] = Sent(RegResp(400, 0))

\* ------------------------------------------------------------------ C22
\* C22: a register handler that answers while a Player holds the request's
\* lower-cased email answers 400, never 500, and leaves the registry as it
\* was.
TakenEmailAnswers400 ==
    [][\A r \in Slots :
          /\ \A name \in NameInputs, email \in EmailInputs :
                /\ Takes(r)
                /\ Register(r, name, email)
                /\ WellFormed(name.len, email)
                /\ EmailTaken([email EXCEPT !.upper = FALSE])
                => users' = users /\ slot'[r] = Sent(RegResp(400, 0))
          /\ /\ slot[r].pc = "regSave"
             /\ RegisterAnswers(r)
             /\ EmailTaken(slot[r].doc.email)
             => users' = users /\ slot'[r] = Sent(RegResp(400, 0))]_vars

\* ------------------------------------------------------------------ C23
\* C23: no two Players have the same lower-cased email, whatever register
\* requests overlap.
EmailsDistinct ==
    \A i, j \in DOMAIN users :
        i # j => [users[i].email EXCEPT !.upper = FALSE] # [users[j].email EXCEPT !.upper = FALSE]

\* two requests for one email overlapped: one stored the Player, the other
\* met the index
EmailsDistinctSeen ==
    /\ Len(users) >= 1
    /\ \E r \in Slots : slot[r] = Sent(RegResp(500, 0))

\* ------------------------------------------------------------------ C24
\* C24: no step removes a Player or a ScoreRecord or changes a Player; the two
\* collections only grow, and a ScoreRecord changes only by a save of its own
\* player's handler that stores strictly fewer moves than the record held.
StoreOnlyGrows ==
    [][/\ Len(users') >= Len(users)
       /\ \A i \in DOMAIN users : users'[i] = users[i]
       /\ Len(scores') >= Len(scores)
       /\ \A k \in DOMAIN scores :
             \/ scores'[k] = scores[k]
             \/ /\ scores'[k].userId = scores[k].userId
                /\ scores'[k].moves < scores[k].moves
                /\ \E r \in Slots :
                      /\ slot[r].pc = "saveUpdate"
                      /\ slot[r].uid = scores[k].userId
                      /\ slot[r].moves = scores'[k].moves]_vars

\* ------------------------------------------------------------------ C25
\* the ScoreRecords of player q in a ledger, as a set of documents
RecordsHeldBy(ledger, q) ==
    {ledger[k] : k \in {i \in DOMAIN ledger : ledger[i].userId = q}}

\* C25: when only calls of different players overlap, a step changes the
\* records of q only if it is a save of q's own call, and that save meets the
\* ledger as the call read it (no record of q at a first save, a record with
\* more moves at an update): every player ends with the moves the calls store
\* when they run one after another, in whatever order.
OthersUntouched ==
    [][/\ \A q \in 0..MaxUsers :
             RecordsHeldBy(scores, q) # RecordsHeldBy(scores', q) =>
                \E r \in Slots :
                   /\ slot[r].pc \in {"saveNew", "saveUpdate"}
                   /\ slot[r].uid = q
                   /\ slot'[r].pc = "sent"
       /\ \A r \in Slots :
             /\ slot[r].pc = "saveNew" => RecordsHeldBy(scores, slot[r].uid) = {}
             /\ slot[r].pc = "saveUpdate" =>
                   /\ scores[slot[r].doc].userId = slot[r].uid
                   /\ slot[r].moves < scores[slot[r].doc].moves
                   /\ (slot'[r].pc = "sent" =>
                         RecordsHeldBy(scores', slot[r].uid) =
                            {ScoreDoc(slot[r].uid, slot[r].moves, slot[r].at)})]_vars

\* both players' updates are in flight at once
OthersUntouchedSeen ==
    /\ slot[1].pc = "saveUpdate"
    /\ slot[2].pc = "saveUpdate"
    /\ slot[1].uid # slot[2].uid

\* ------------------------------------------------------------------ C26
\* C26: two leaderboard calls with the same page and the same limit over the
\* unchanged store return the same records in the same order with the same
\* ranks, also when several records tie on moves and completedAt.
SameQuerySameAnswer ==
    \A r, q \in Slots :
        /\ slot[r].pc = "boardCount"
        /\ slot[q].pc = "boardCount"
        /\ slot[r].page = slot[q].page
        /\ slot[r].limit = slot[q].limit
        => slot[r].entries = slot[q].entries

\* ------------------------------------------------------------------ C27
\* C27: getStats answers completionRate = round(100 * totalScores /
\* totalUsers) when there is a player and 0 when there is none, and
\* averageMoves, bestScore and worstScore all 0 when there is no ScoreRecord.
StatsFigures ==
    \A r \in Slots :
        (slot[r].pc = "sent" /\ slot[r].resp.op = "stats") =>
            LET answer == slot[r].resp
                players == answer.totalUsers
                records == answer.totalScores
            IN /\ answer.completionRate =
                     IF players > 0
                     THEN (200 * records + players) \div (2 * players)
                     ELSE 0
               /\ records = 0 =>
                     /\ answer.averageMoves = 0
                     /\ answer.bestScore = 0
                     /\ answer.worstScore = 0

\* ------------------------------------------------------------------ C29
\* cells i and j lie in the same row with columns one apart, or in the same
\* column with rows one apart
RowOrColumnNext(i, j) ==
    \/ (i \div 3 = j \div 3) /\ ((i % 3) - (j % 3) \in {-1, 1})
    \/ (i % 3 = j % 3) /\ ((i \div 3) - (j \div 3) \in {-1, 1})

\* C29: for the selected cell s and every cell j, isAdjacent(s, j) is true
\* exactly when the two are next to each other in a row or in a column;
\* isAdjacent is symmetric, false for a cell and itself, false for diagonal
\* cells and false for 2, 3 and for 5, 6, which follow each other in the
\* numbering but lie in different rows.
AdjacentIsRowOrColumn ==
    client.selectedSquare # Null =>
        LET s == client.selectedSquare
        IN /\ \A j \in 0..8 :
                 /\ IsAdjacent(s, j) <=> RowOrColumnNext(s, j)
                 /\ IsAdjacent(s, j) <=> IsAdjacent(j, s)
                 /\ ((s \div 3 # j \div 3) /\ (s % 3 # j % 3)) => ~IsAdjacent(s, j)
           /\ ~IsAdjacent(s, s)
           /\ ~IsAdjacent(2, 3) /\ ~IsAdjacent(3, 2)
           /\ ~IsAdjacent(5, 6) /\ ~IsAdjacent(6, 5)

\* the centre cell is selected in a game under way: four neighbours, four
\* diagonal cells
AdjacentIsRowOrColumnSeen ==
    /\ client.selectedSquare = 4
    /\ client.moves >= 1
    /\ ~client.gameWon

\* ------------------------------------------------------------------ C30
\* the moves stored for player p in a ledger; 0 when p has no record
StoredMoves(ledger, p) ==
    IF RecordsHeldBy(ledger, p) = {} THEN 0
    ELSE CHOOSE m \in {d.moves : d \in RecordsHeldBy(ledger, p)} : TRUE

\* C30: when calls do not overlap, a call of a registered player p with moves
\* m >= 1 leaves p with one record that holds the smaller of m and what was
\* stored (m when nothing was), and leaves the ledger untouched when it
\* already holds m or less for p; no other step changes the ledger.  So the
\* stored moves is the minimum of the values p submitted, p has a record
\* exactly when p submitted one, and a repeated submission changes nothing.
StoredIsMinimum ==
    [][\A r \in Slots :
          IF slot[r].pc \in {"findScore", "saveNew", "saveUpdate"} /\ slot'[r].pc = "sent"
          THEN LET p == slot[r].uid
                   m == slot[r].moves
                   before == StoredMoves(scores, p)
               IN /\ m >= 1
                  /\ Cardinality(RecordsHeldBy(scores', p)) = 1
                  /\ StoredMoves(scores', p) = IF before = 0 THEN m ELSE Min(before, m)
                  /\ (before # 0 /\ before <= m) => scores' = scores
                  /\ \A q \in 1..MaxUsers :
                        q # p => RecordsHeldBy(scores', q) = RecordsHeldBy(scores, q)
                  /\ Len(scores') = Len(scores) + (IF before = 0 THEN 1 ELSE 0)
          ELSE \/ scores' = scores
               \/ \E q \in Slots : q # r /\ slot'[q] # slot[q]]_vars

\* the record holds 1 since time 0 and a later call was answered as no
\* improvement
StoredIsMinimumSeen ==
    /\ now = 1
    /\ \E k \in DOMAIN scores : scores[k].moves = 1 /\ scores[k].completedAt = 0
    /\ \E r \in Slots : slot[r] = Sent(ScoreResp(200, 1, 0, FALSE))

\* ------------------------------------------------------------------ C28
\* the registration the client awaited ended without an answer being read
FetchRejected ==
    /\ client.register # NoRequest
    /\ client'.register = NoRequest
    /\ slot' = slot

\* C28: when the registration request fails at the network level the client
\* signs the player in with the offline credential and leaves the board, the
\* grid, the counter, the selection and the solved flag as they were, so the
\* game goes on to solved; a score submission that carries the offline
\* credential is refused by the server, and no step writes the ledger for a
\* handler that the offline credential started.
OfflineFallback ==
    [][/\ FetchRejected =>
             /\ client'.currentUser = SignedIn(OfflineToken)
             /\ ~client'.showAuth
             /\ client'.grid = client.grid
             /\ client'.moves = client.moves
             /\ client'.selectedSquare = client.selectedSquare
             /\ client'.gameWon = client.gameWon
       /\ \A r \in Slots, k \in DOMAIN client.fetches :
             /\ client.fetches[k].token = OfflineToken
             /\ Takes(r)
             /\ SubmitScore(r, OfflineToken, client.fetches[k].moves)
             => /\ slot'[r] = Sent(ScoreErr(403))
                /\ scores' = scores
       /\ scores' # scores =>
             \E r \in Slots :
                /\ slot[r].pc \in {"saveNew", "saveUpdate"}
                /\ slot[r].uid \in DOMAIN users
                /\ slot[r].uid # OfflineToken.uid]_vars

\* the player signed in offline has solved the puzzle, the submission was
\* refused and the ledger is empty
OfflineFallbackSeen ==
    /\ client.currentUser = SignedIn(OfflineToken)
    /\ client.authError = "offline"
    /\ client.gameWon
    /\ \E r \in Slots : slot[r] = Sent(ScoreErr(403))
    /\ scores = <<>>

\* ------------------------------------------------------------------ C31
\* C31: over an unchanged store, the rank the player's own score request
\* returns is the rank of that player's entry in every leaderboard answer
\* that lists the player, also when the record ties with another player's in
\* moves and completedAt.
RankMatchesBoard ==
    [][\A r, q \in Slots :
          (slot[r].pc = "rankCount" /\ slot'[r].pc = "sent") =>
             \A i \in DOMAIN BoardEntries(q) :
                BoardEntries(q)[i].email = users[slot[r].score.userId].email
                => slot'[r].resp.rank = BoardEntries(q)[i].rank]_vars

\* ------------------------------------------------------------------ C32
\* the number of entries page p holds when total records are cut into pages
\* of limit
PageSize(p, limit, total) ==
    IF total - (p - 1) * limit <= 0 THEN 0
    ELSE IF total - (p - 1) * limit >= limit THEN limit
    ELSE total - (p - 1) * limit

\* C32: over an unchanged store and for a limit >= 1 the pages cut the ledger
\* into parts: two different pages share no record, pages 1 and 2 together
\* hold every record when there are two pages, a page before the last holds
\* limit entries and the last one the rest, and hasNext is answered true
\* exactly when the next page is not empty.
PagesPartition ==
    [][\A r, q \in Slots :
          /\ (slot[r].pc = "boardCount" /\ slot[r].page >= 1) =>
                /\ Len(slot[r].entries) =
                      PageSize(slot[r].page, slot[r].limit, Len(scores))
                /\ slot'[r].pc = "sent" =>
                      (slot'[r].resp.hasNext <=>
                          PageSize(slot[r].page + 1, slot[r].limit, Len(scores)) > 0)
          /\ (/\ slot[r].pc = "boardCount"
              /\ slot[q].pc = "boardCount"
              /\ slot[r].limit = slot[q].limit
              /\ slot[r].page >= 1
              /\ slot[q].page >= 1
              /\ slot[r].page # slot[q].page) =>
                /\ \A i \in DOMAIN slot[r].entries, j \in DOMAIN slot[q].entries :
                      slot[r].entries[i].email # slot[q].entries[j].email
                /\ (Len(scores) <= 2 * slot[r].limit
                    /\ {slot[r].page, slot[q].page} = {1, 2}) =>
                      \A k \in DOMAIN scores :
                         \E e \in {slot[r].entries[i] : i \in DOMAIN slot[r].entries}
                                  \cup {slot[q].entries[j] : j \in DOMAIN slot[q].entries} :
                            e.email = users[scores[k].userId].email]_vars

\* ------------------------------------------------------------------ C33
\* C33: in every reachable state every ScoreRecord belongs to a registered
\* Player and there are at most as many ScoreRecords as Players, and every
\* answer of getStats carries a completionRate of at most 100, whatever
\* register and submitScore requests run between its queries.
RecordsWithinPlayers ==
    /\ \A k \in DOMAIN scores : scores[k].userId \in DOMAIN users
    /\ Len(scores) <= Len(users)
    /\ \A r \in Slots :
          (slot[r].pc = "sent" /\ slot[r].resp.op = "stats") =>
             slot[r].resp.completionRate <= 100

\* ------------------------------------------------------------------ C34
\* A way to solve any grid: the values 1 to 9 are brought to cells 0 to 8 in
\* turn, each along its row to the column of its cell and then up that
\* column, which passes over no cell that is already in place.
CellOf(grid, v) == CHOOSE i \in 0..8 : grid[i] = v

TowardCell(from, to) ==
    IF from % 3 > to % 3 THEN from - 1
    ELSE IF from % 3 < to % 3 THEN from + 1
    ELSE from - 3

RECURSIVE Carry(_, _)
Carry(from, to) ==
    IF from = to THEN <<>>
    ELSE <<<<from, TowardCell(from, to)>>>> \o Carry(TowardCell(from, to), to)

RECURSIVE Exchanged(_, _)
Exchanged(grid, pairs) ==
    IF pairs = <<>> THEN grid
    ELSE Exchanged([grid EXCEPT ![pairs[1][1]] = grid[pairs[1][2]],
                                ![pairs[1][2]] = grid[pairs[1][1]]], Tail(pairs))

RECURSIVE WayHome(_, _)
WayHome(grid, cell) ==
    IF cell = 9 THEN <<>>
    ELSE LET pairs == Carry(CellOf(grid, cell + 1), cell)
         IN pairs \o WayHome(Exchanged(grid, pairs), cell + 1)

\* the state after clicking the two cells of every pair in turn
RECURSIVE Played(_, _)
Played(c, pairs) ==
    IF pairs = <<>> THEN c
    ELSE Played(Clicked(Clicked(c, pairs[1][1]), pairs[1][2]), Tail(pairs))

\* C34: from every reachable state that is not solved (the initial grid
\* among them) a finite sequence of clicks leads to solved: a click that
\* drops the selection, if there is one, and then the clicks of the way home.
Solvable ==
    ~client.gameWon =>
        LET start == IF client.selectedSquare = Null THEN client
                     ELSE Clicked(client, client.selectedSquare)
        IN Played(start, WayHome(client.grid, 0)).gameWon

\* a game under way, back at the initial grid after twelve swaps, with a
\* cell selected
SolvableSeen ==
    /\ ~client.gameWon
    /\ client.grid = InitialGrid
    /\ client.moves = 12
    /\ client.selectedSquare = 8

\* ------------------------------------------------------------------ C35
\* C35: in a solved state no cell is selected and the move count is at least
\* 1, and every submission a win has sent carries moves that pass the
\* ledger's check; the move count is the number of swaps since the last
\* reset: a step either exchanges two cells of the grid and adds one to the
\* count, or puts back the initial grid, unsolved and with no selection, and
\* sets the count to 0, or leaves both the grid and the count alone.
SolvedCountsSwaps ==
    [][/\ client'.gameWon =>
             /\ client'.selectedSquare = Null
             /\ client'.moves >= 1
       /\ \A k \in DOMAIN client'.fetches : ~InvalidMoves(client'.fetches[k].moves)
       /\ \/ /\ client'.moves = client.moves + 1
             /\ \E i, j \in 0..8 :
                   /\ i # j
                   /\ client'.grid = [client.grid EXCEPT ![i] = client.grid[j],
                                                         ![j] = client.grid[i]]
          \/ /\ client'.moves = 0
             /\ client'.grid = InitialGrid
             /\ client'.selectedSquare = Null
             /\ ~client'.gameWon
          \/ /\ client'.moves = client.moves
             /\ client'.grid = client.grid]_vars

\* solved in the fewest swaps, submitted as ten
SolvedCountsSwapsSeen ==
    /\ client.gameWon
    /\ client.selectedSquare = Null
    /\ client.moves = 10
    /\ Len(client.fetches) = 1
    /\ client.fetches[1].moves = 10

====
